---- MODULE Spec2Model ----
(***************************************************************************)
(* Model of src/main.py (Project Euler 60, "Prime Pair Sets").             *)
(*                                                                         *)
(* main(k) keeps a graph over candidate primes (seed 3, then every prime   *)
(* found from 7 upwards); an edge joins p and q when both decimal          *)
(* concatenations are prime.  After each insertion it looks for a k-clique *)
(* that contains the new prime and returns on the first one it accepts.    *)
(*                                                                         *)
(* One step of the model is one call boundary or one iteration of the      *)
(* `while True` loop of main (lines 105-150).                              *)
(***************************************************************************)
EXTENDS Integers, Sequences, FiniteSets

VARIABLES
    pc,              \* "call" | "loop" | "returned" | "error" | "arg" | "tested"
    k,               \* the argument of main, as [ty, val]
    prime_cands,     \* list of candidate primes            (line 97)
    prime_to_index,  \* insertion-ordered dict, as a sequence of <<prime, index>> (line 98)
    prime_degrees,   \* dict prime -> degree                (line 99)
    n,               \* number of vertices                  (line 100)
    adj,             \* dok_matrix: [dim, nz] with nz the set of True keys (line 101)
    x,               \* the integer under test              (line 104)
    ret,             \* <<>> until main returns, then <<p_set_best, p_sum_best>>
    examined,        \* combinations drawn from the iterator in the last search
    combos_total,    \* combinations the iterator of the last search holds
    tests,           \* number of is_prime calls made so far
    arg,             \* argument of a direct is_prime call
    res              \* its result: "none" | TRUE | FALSE

vars == <<pc, k, prime_cands, prime_to_index, prime_degrees, n, adj, x, ret,
          examined, combos_total, tests, arg, res>>

\* ---------------------------------------------------------------- bounds
MaxK == 5        \* largest integer argument tried for k
MaxX == 700      \* the loop is cut off once x exceeds this
MaxArg == 120    \* largest argument of a direct is_prime call

\* ------------------------------------------------------ program constants
Seed == 3
StartX == 7

None == <<>>

\* ------------------------------------------------------------ arithmetic
RECURSIVE FloorSqrt(_)
\* floor(sqrt(v)) for v >= 0
FloorSqrt(v) ==
    IF v < 2 THEN v
    ELSE LET s == 2 * FloorSqrt(v \div 4)
         IN  IF (s + 1) * (s + 1) <= v THEN s + 1 ELSE s

RECURSIVE SumSeq(_)
SumSeq(s) == IF s = <<>> THEN 0 ELSE Head(s) + SumSeq(Tail(s))

\* str(v) for v >= 0: the sequence of decimal digits, most significant first
RECURSIVE str(_)
str(v) == IF v < 10 THEN <<v>> ELSE Append(str(v \div 10), v % 10)

\* int(s) for a sequence of decimal digits
RECURSIVE int(_)
int(s) ==
    IF s = <<>> THEN 0
    ELSE 10 * int(SubSeq(s, 1, Len(s) - 1)) + s[Len(s)]

\* ------------------------------------------------------------- is_prime
\* the same loop with the last divisor left out
is_prime_short(v) ==
    LET mid == FloorSqrt(v)
    IN  \A d \in 2..(mid - 1) : v % d # 0

is_prime(v) ==
    LET mid == FloorSqrt(v) + 1
    IN  \A d \in 2..(mid - 1) : v % d # 0

\* ----------------------------------------------- is_pairwise_concatable
\* only one of the two orders is tested
is_pairwise_concatable_one(a, b) ==
    LET sx == str(a)
        sy == str(b)
    IN  is_prime(int(sx \o sy))

is_pairwise_concatable(a, b) ==
    LET sx == str(a)
        sy == str(b)
    IN  is_prime(int(sx \o sy)) /\ is_prime(int(sy \o sx))

\* is_prime calls one evaluation of is_pairwise_concatable makes (`and`
\* does not evaluate its right operand when the left one is False)
ConcatCalls(a, b) == IF is_prime(int(str(a) \o str(b))) THEN 2 ELSE 1

\* ---------------------------------------------------------- dok_matrix
EmptyMatrix(d) == [dim |-> d, nz |-> {}]

Resize(m, d) ==
    [dim |-> d, nz |-> {e \in m.nz : e[1] < d /\ e[2] < d}]

Get(m, i, j) == <<i, j>> \in m.nz

\* only the last row is written
SetEdgeOneWay(m, j) ==
    [m EXCEPT !.nz = @ \cup {<<m.dim - 1, j>>}]

\* adj[-1, j] = adj[j, -1] = True
SetEdge(m, j) ==
    [m EXCEPT !.nz = @ \cup {<<m.dim - 1, j>>, <<j, m.dim - 1>>}]

\* ------------------------------------------------------------- the dicts
IndexOf(p2i, p) ==
    p2i[CHOOSE t \in 1..Len(p2i) : p2i[t][1] = p][2]

\* only the new prime's degree is counted
BumpDegreesNewOnly(deg, q, xv) ==
    [deg EXCEPT ![xv] = @ + 1]

\* prime_degrees[q] += 1 ; prime_degrees[x] += 1
BumpDegrees(deg, q, xv) ==
    [deg EXCEPT ![q] = @ + 1, ![xv] = @ + 1]

\* prime_degrees[x] = 0
NewDegree(deg, xv) ==
    [p \in (DOMAIN deg) \cup {xv} |-> IF p = xv THEN 0 ELSE deg[p]]

\* --------------------------------------------------------- argument check
IntArgs == {[ty |-> "int", val |-> v] : v \in (-1)..MaxK}
OtherArgs ==
    {[ty |-> "float", val |-> 3], [ty |-> "float", val |-> 0],
     [ty |-> "bool", val |-> 1], [ty |-> "str", val |-> 4]}
Args == IntArgs \cup OtherArgs

\* the type test is missing
ValidKNoType(a) == a.ty \in {"int", "float", "bool"} /\ a.val > 1

\* assert type(k) == int and k > 1
ValidK(a) == a.ty = "int" /\ a.val > 1

\* ------------------------------------------------------- vertex insertion
RECURSIVE InsertLoop(_, _, _, _, _, _)
\* for q, j in prime_to_index.items(): ...
InsertLoop(xv, p2i, t, a, deg, cnt) ==
    IF t > Len(p2i) THEN [adj |-> a, deg |-> deg, tests |-> cnt]
    ELSE LET q == p2i[t][1]
             j == p2i[t][2]
             c == cnt + ConcatCalls(xv, q)
         IN  IF is_pairwise_concatable(xv, q)
             THEN InsertLoop(xv, p2i, t + 1, SetEdge(a, j), BumpDegrees(deg, q, xv), c)
             ELSE InsertLoop(xv, p2i, t + 1, a, deg, c)

\* the index is taken after the increment of n, without the -1
NewIndexOff(nn) == nn

\* prime_to_index[x] = n-1
NewIndex(nn) == nn - 1

\* ----------------------------------------------------------- clique search
\* the filter asks for one edge too many
DegreeOKStrict(d, kk) == d >= kk

\* prime_degrees[.] >= k-1
DegreeOK(d, kk) == d >= kk - 1

\* the first entry of the dict is skipped
clique_cands_skip(p2i, deg, m, xv, kk) ==
    LET i   == IndexOf(p2i, xv)
        sel == SelectSeq(Tail(p2i), LAMBDA e : DegreeOK(deg[e[1]], kk) /\ Get(m, e[2], i))
    IN  [t \in 1..Len(sel) |-> sel[t][1]]

clique_cands(p2i, deg, m, xv, kk) ==
    LET i   == IndexOf(p2i, xv)
        sel == SelectSeq(p2i, LAMBDA e : DegreeOK(deg[e[1]], kk) /\ Get(m, e[2], i))
    IN  [t \in 1..Len(sel) |-> sel[t][1]]

RECURSIVE combinations(_, _)
\* itertools.combinations(s, r): r-subsequences of s in lexicographic
\* order of positions
combinations(s, r) ==
    IF r = 0 THEN << <<>> >>
    ELSE IF Len(s) < r THEN <<>>
    ELSE LET with == combinations(Tail(s), r - 1)
         IN  [t \in 1..Len(with) |-> <<Head(s)>> \o with[t]]
             \o combinations(Tail(s), r)

\* all(map(lambda pair: adj[index[pair[0]], index[pair[1]]], combinations(p_subset, 2)))
AllPairsAdjacent(p_subset, p2i, m) ==
    LET pairs == combinations(p_subset, 2)
    IN  \A t \in 1..Len(pairs) :
            Get(m, IndexOf(p2i, pairs[t][1]), IndexOf(p2i, pairs[t][2]))

RECURSIVE SearchLoop(_, _, _, _, _, _)
\* for p_subset in combinations(clique_cands, k - 1): ...
\* the `return` sits inside the loop body, after the if/else
SearchLoop(combos, t, p_sum_best, xv, p2i, m) ==
    IF t > Len(combos) THEN [found |-> FALSE, examined |-> Len(combos)]
    ELSE LET p_subset == combos[t]
             p_set    == p_subset \o <<xv>>
         IN  IF AllPairsAdjacent(p_subset, p2i, m)
                /\ (p_sum_best = None \/ SumSeq(p_set) < p_sum_best[1])
             THEN \* p_sum_best is set, so the check that follows returns
                  [found |-> TRUE, p_set_best |-> p_set,
                   p_sum_best |-> SumSeq(p_set), examined |-> t]
             ELSE SearchLoop(combos, t + 1, p_sum_best, xv, p2i, m)

\* everything main does with a prime x: lines 107-148
Step(xv) ==
    LET n1   == n + 1
        a1   == Resize(adj, n1)
        d1   == NewDegree(prime_degrees, xv)
        ins  == InsertLoop(xv, prime_to_index, 1, a1, d1, 0)
        p2i  == Append(prime_to_index, <<xv, NewIndex(n1)>>)
        cs   == IF DegreeOK(ins.deg[xv], k.val)
                THEN combinations(clique_cands(p2i, ins.deg, ins.adj, xv, k.val), k.val - 1)
                ELSE <<>>
        srch == IF DegreeOK(ins.deg[xv], k.val)
                THEN SearchLoop(cs, 1, None, xv, p2i, ins.adj)
                ELSE [found |-> FALSE, examined |-> 0]
    IN  [n |-> n1, adj |-> ins.adj, deg |-> ins.deg, p2i |-> p2i,
         cands |-> Append(prime_cands, xv), calls |-> ins.tests,
         total |-> Len(cs), srch |-> srch]

\* ------------------------------------------------------------------ actions
Blank ==
    /\ prime_cands = <<>>
    /\ prime_to_index = <<>>
    /\ prime_degrees = <<>>
    /\ n = 0
    /\ adj = EmptyMatrix(0)
    /\ x = 0
    /\ ret = None
    /\ examined = 0
    /\ combos_total = 0
    /\ tests = 0

Init ==
    /\ pc = "call"
    /\ k \in Args
    /\ Blank
    /\ arg = 0
    /\ res = "none"

\* line 80 fails: AssertionError
Reject ==
    /\ pc = "call"
    /\ ~ValidK(k)
    /\ pc' = "error"
    /\ UNCHANGED <<k, prime_cands, prime_to_index, prime_degrees, n, adj, x, ret,
                   examined, combos_total, tests, arg, res>>

\* lines 80-104
Enter ==
    /\ pc = "call"
    /\ ValidK(k)
    /\ pc' = "loop"
    /\ prime_cands' = <<Seed>>
    /\ prime_to_index' = << <<Seed, 0>> >>
    /\ prime_degrees' = [p \in {Seed} |-> 0]
    /\ n' = 1
    /\ adj' = EmptyMatrix(1)
    /\ x' = StartX
    /\ UNCHANGED <<k, ret, examined, combos_total, tests, arg, res>>

\* lines 106, 150 with is_prime(x) False
Composite ==
    /\ pc = "loop"
    /\ x <= MaxX
    /\ ~is_prime(x)
    /\ x' = x + 1
    /\ tests' = tests + 1
    /\ UNCHANGED <<pc, k, prime_cands, prime_to_index, prime_degrees, n, adj, ret,
                   examined, combos_total, arg, res>>

\* lines 106-150 with is_prime(x) True and no clique accepted: x is
\* inserted, the search finds nothing, x += 1
InsertContinue ==
    /\ pc = "loop"
    /\ x <= MaxX
    /\ is_prime(x)
    /\ \E s \in {Step(x)} :
           /\ ~s.srch.found
           /\ n' = s.n
           /\ adj' = s.adj
           /\ prime_degrees' = s.deg
           /\ prime_to_index' = s.p2i
           /\ prime_cands' = s.cands
           /\ tests' = tests + 1 + s.calls
           /\ examined' = s.srch.examined
           /\ combos_total' = s.total
    /\ x' = x + 1
    /\ UNCHANGED <<pc, k, ret, arg, res>>

\* lines 106-148 with is_prime(x) True and a clique accepted: x is
\* inserted and line 148 returns p_set_best, p_sum_best
InsertReturn ==
    /\ pc = "loop"
    /\ x <= MaxX
    /\ is_prime(x)
    /\ \E s \in {Step(x)} :
           /\ s.srch.found
           /\ n' = s.n
           /\ adj' = s.adj
           /\ prime_degrees' = s.deg
           /\ prime_to_index' = s.p2i
           /\ prime_cands' = s.cands
           /\ tests' = tests + 1 + s.calls
           /\ examined' = s.srch.examined
           /\ combos_total' = s.total
           /\ ret' = <<s.srch.p_set_best, s.srch.p_sum_best>>
    /\ pc' = "returned"
    /\ UNCHANGED <<k, x, arg, res>>

Next == Reject \/ Enter \/ Composite \/ InsertContinue \/ InsertReturn

Spec == Init /\ [][Next]_vars

\* ------------------------------------------- is_prime called on its own
InitIsPrime ==
    /\ pc = "arg"
    /\ k = [ty |-> "int", val |-> 0]
    /\ Blank
    /\ arg \in 1..MaxArg
    /\ res = "none"

CallIsPrime ==
    /\ pc = "arg"
    /\ pc' = "tested"
    /\ res' = is_prime(arg)
    /\ UNCHANGED <<k, prime_cands, prime_to_index, prime_degrees, n, adj, x, ret,
                   examined, combos_total, tests, arg>>

NextIsPrime == CallIsPrime

SpecIsPrime == InitIsPrime /\ [][NextIsPrime]_vars

\* ======================================================================
\* Reference notions used by the properties (arithmetic, independent of
\* the program's own helpers)
\* ======================================================================

RECURSIVE RootBound(_)
\* a power of ten that is >= sqrt(v)
RootBound(v) == IF v < 100 THEN 10 ELSE 10 * RootBound(v \div 100)

\* v is a prime number: v >= 2 and no d with 2 <= d, d*d <= v divides v
IsPrimeNumber(v) ==
    /\ v >= 2
    /\ ~\E d \in 2..RootBound(v) : d * d <= v /\ v % d = 0

RECURSIVE Shift(_, _)
\* a followed by as many zeros as b has digits
Shift(a, b) == IF b < 10 THEN 10 * a ELSE Shift(10 * a, b \div 10)

\* the number written as the digits of a followed by the digits of b
Cat(a, b) == Shift(a, b) + b

\* both concatenations of a and b are prime numbers
PrimePair(a, b) == IsPrimeNumber(Cat(a, b)) /\ IsPrimeNumber(Cat(b, a))

Range(s) == {s[t] : t \in 1..Len(s)}

Running == pc \in {"loop", "returned"}

Vertices == 0..(n - 1)

Row(i) == {j \in Vertices : Get(adj, i, j)}

RECURSIVE CheaperPrimeSet(_, _, _)
\* some `need` members of ps, pairwise PrimePair, sum to less than budget
CheaperPrimeSet(ps, need, budget) ==
    IF need = 0 THEN budget > 0
    ELSE \E p \in ps :
            /\ p < budget
            /\ CheaperPrimeSet({q \in ps : q > p /\ PrimePair(p, q)}, need - 1, budget - p)

RECURSIVE CliqueIn(_, _)
\* some `need` vertices of vs are pairwise adjacent in adj
CliqueIn(vs, need) ==
    \/ need = 0
    \/ \E v \in vs : CliqueIn({u \in vs : u > v /\ Get(adj, v, u)}, need - 1)

RECURSIVE CheaperCliqueIn(_, _, _)
\* some `need` pairwise adjacent vertices of vs have primes summing to
\* less than budget
CheaperCliqueIn(vs, need, budget) ==
    IF need = 0 THEN budget > 0
    ELSE \E v \in vs :
            CheaperCliqueIn({u \in vs : u > v /\ Get(adj, v, u)}, need - 1,
                            budget - prime_cands[v + 1])

\* ======================================================================
\* Properties
\* ======================================================================

\* C1: when main(k) has returned, the returned primes are k pairwise
\* concatenable primes and no set of k distinct primes with that property,
\* whatever the size of its members, has a smaller sum.
C1_GlobalMinimum ==
    pc = "returned" =>
        /\ Cardinality(Range(ret[1])) = k.val
        /\ \A p \in Range(ret[1]) : IsPrimeNumber(p)
        /\ \A p, q \in Range(ret[1]) : p # q => PrimePair(p, q)
        /\ ~CheaperPrimeSet({p \in 2..ret[2] : IsPrimeNumber(p)}, k.val, ret[2])

\* main(4) has returned at a prime below the returned sum, so primes above
\* the stopping point take part in the comparison
C1_Witness ==
    /\ pc = "returned"
    /\ k.val = 4
    /\ x < ret[2]
    /\ \E p \in (x + 1)..ret[2] : IsPrimeNumber(p)

\* C2: when main(k) has returned, every combination of the candidate
\* neighbours was examined and the returned clique has the lowest sum among
\* the k-cliques of the graph that contain x.
C2_AllExaminedAndMinimum ==
    pc = "returned" =>
        /\ examined = combos_total
        /\ ~CheaperCliqueIn(Row(n - 1), k.val - 1, ret[2] - x)

\* C3: the returned pair (p_set, p_sum): k distinct candidates, all prime,
\* the new prime x among them, every two concatenable, p_sum their sum.
C3_ResultIsClique ==
    pc = "returned" =>
        /\ Len(ret[1]) = k.val
        /\ Cardinality(Range(ret[1])) = k.val
        /\ Range(ret[1]) \subseteq Range(prime_cands)
        /\ \A p \in Range(ret[1]) : IsPrimeNumber(p)
        /\ x = prime_cands[Len(prime_cands)]
        /\ x \in Range(ret[1])
        /\ \A p, q \in Range(ret[1]) :
              p # q => is_pairwise_concatable(p, q) /\ PrimePair(p, q)
        /\ ret[2] = SumSeq(ret[1])

C3_Witness ==
    /\ pc = "returned"
    /\ k.val = 3
    /\ Len(ret[1]) = 3
    /\ x = 67

\* C4: main(2) returns {3, 7} with sum 10 and main(4) returns
\* {3, 7, 109, 673} with sum 792; neither runs past the prime it returns at.
C4_EndToEnd ==
    /\ (k = [ty |-> "int", val |-> 2] /\ pc = "loop") => x <= 7
    /\ (k = [ty |-> "int", val |-> 2] /\ pc = "returned") =>
          /\ Range(ret[1]) = {3, 7}
          /\ Len(ret[1]) = 2
          /\ ret[2] = 10
    /\ (k = [ty |-> "int", val |-> 4] /\ pc = "loop") => x <= 673
    /\ (k = [ty |-> "int", val |-> 4] /\ pc = "returned") =>
          /\ Range(ret[1]) = {3, 7, 109, 673}
          /\ Len(ret[1]) = 4
          /\ ret[2] = 792

C4_Witness ==
    /\ pc = "returned"
    /\ k = [ty |-> "int", val |-> 4]
    /\ ret[2] = 792

\* C5: an argument that is not an int, or is <= 1, never gets past the
\* assertion: nothing is created and is_prime is never called.
C5_InvalidInputRejected ==
    (k.ty # "int" \/ k.val <= 1) =>
        /\ pc \in {"call", "error"}
        /\ Blank

C5_Witness ==
    /\ pc = "error"
    /\ k = [ty |-> "float", val |-> 3]
    /\ tests = 0

\* C6: is_prime(v) is True exactly when v is a prime number, for every
\* v >= 1.
C6_IsPrimeAgrees ==
    pc = "tested" => (res = IsPrimeNumber(arg))

\* C7: while the loop is running (main has not returned), no k vertices of
\* the graph are pairwise adjacent.
C7_NoCliqueLeftBehind ==
    pc = "loop" => ~CliqueIn(Vertices, k.val)

\* the search ran on a new prime of sufficient degree, went through every
\* combination and the loop went on; the degree filter dropped a neighbour
C7_Witness ==
    /\ pc = "loop"
    /\ k.val = 4
    /\ combos_total > 0
    /\ examined = combos_total
    /\ \E j \in Row(n - 1) : prime_degrees[prime_cands[j + 1]] < k.val - 1

\* C8: the adjacency matrix has no self-loop, is symmetric, holds True at
\* (i, j) exactly when the two candidates are pairwise concatenable, and
\* never loses a True entry.
C8_Adjacency ==
    /\ [](Running =>
            /\ adj.nz \subseteq (Vertices \X Vertices)
            /\ \A i \in Vertices : ~Get(adj, i, i)
            /\ \A i, j \in Vertices :
                  /\ Get(adj, i, j) = Get(adj, j, i)
                  /\ i < j => (Get(adj, i, j) <=>
                                 is_pairwise_concatable(prime_cands[i + 1], prime_cands[j + 1])))
    /\ [][adj.nz \subseteq adj'.nz]_vars

C8_Witness ==
    /\ pc = "loop"
    /\ n >= 20
    /\ Cardinality(adj.nz) >= 10

\* C9: every candidate's degree counter equals the number of True entries
\* in its row, and no counter ever decreases.
C9_Degrees ==
    /\ [](Running =>
            /\ DOMAIN prime_degrees = Range(prime_cands)
            /\ \A i \in Vertices :
                  prime_degrees[prime_cands[i + 1]] = Cardinality(Row(i)))
    /\ [][\A v \in DOMAIN prime_degrees :
             /\ v \in DOMAIN prime_degrees'
             /\ prime_degrees'[v] >= prime_degrees[v]]_vars

C9_Witness ==
    /\ pc = "loop"
    /\ \E v \in DOMAIN prime_degrees : prime_degrees[v] >= 5
    /\ \E v \in DOMAIN prime_degrees : prime_degrees[v] = 0

\* C10: the candidate list is 3 followed by every prime from 7 up to the
\* last inserted one, in increasing order; prime_to_index gives each
\* candidate its position; the matrix has one row per candidate; positions
\* never change and nothing is removed.
C10_Candidates ==
    /\ [](Running =>
            /\ \A s, t \in 1..Len(prime_cands) : s < t => prime_cands[s] < prime_cands[t]
            /\ prime_cands[1] = 3
            /\ Range(prime_cands) =
                  {3} \cup {p \in 7..(IF pc = "loop" THEN x - 1 ELSE x) : IsPrimeNumber(p)}
            /\ Len(prime_to_index) = Len(prime_cands)
            /\ \A t \in 1..Len(prime_cands) : IndexOf(prime_to_index, prime_cands[t]) = t - 1
            /\ \A t \in 1..Len(prime_cands) : prime_to_index[t][1] = prime_cands[t]
            /\ n = Len(prime_cands)
            /\ adj.dim = Len(prime_cands))
    /\ [][/\ Len(prime_cands') >= Len(prime_cands)
          /\ \A t \in 1..Len(prime_cands) :
                /\ prime_cands'[t] = prime_cands[t]
                /\ prime_to_index'[t] = prime_to_index[t]]_vars

C10_Witness ==
    /\ pc = "loop"
    /\ Len(prime_cands) >= 30
    /\ x > 100

====
